---- MODULE Spec2Model ----
(***************************************************************************)
(* The blog helper scripts: publish_post.py (choose a draft, stamp its     *)
(* front matter date, move it to _posts) and new_post.py (write a stub in  *)
(* _posts, open the editor, discard the stub when it was left unedited).   *)
(*                                                                         *)
(* A text is a sequence of tokens.  A token stands for a run of characters *)
(* that the code never looks inside: "---", "date:", "title:", one blank,  *)
(* one line feed, one carriage return, one form feed, or other text.       *)
(***************************************************************************)
EXTENDS Integers, Sequences, FiniteSets, TLC

VARIABLES
    platform,   \* os.name of the machine: "posix" or "nt"
    drafts,     \* _drafts: file name -> bytes on disk
    posts,      \* _posts:  file name -> bytes on disk
    clock,      \* the wall clock, in ticks
    pc,         \* where the running script is
    runs,       \* how often a script was started
    listed,     \* main: drafts = list_drafts()
    which,      \* choose_draft: whether shutil.which("fzf") found the tool
    fzfCalls,   \* how often the fuzzy finder was started in this run
    proc,       \* choose_draft: the finished fzf process, or None
    choice,     \* choose_draft: the last line read at the numbered prompt
    reads,      \* how often input() was called in this run
    selected,   \* main: the chosen draft, or None
    now,        \* promote_draft: the timestamp read at its start
    stdout,     \* what the running script has printed
    exc,        \* the exception that ended the script, or "none"
    rc,         \* the exit code of the script, -1 while it runs
    orig,       \* the bytes of the file before update_frontmatter_date ran
    filename,   \* new_post: the name of the file in _posts
    frontmatter,\* new_post: the stub written first
    content     \* new_post: the text read back after the editor

vars == <<platform, drafts, posts, clock, pc, runs, listed, which, fzfCalls,
          proc, choice, reads, selected, now, stdout, exc, rc, orig,
          filename, frontmatter, content>>

-----------------------------------------------------------------------------
(* Bounds *)

MaxLines == 3
MaxClock == 2
MaxRuns == 2
MaxReads == 2

-----------------------------------------------------------------------------
(* Tokens and strings *)

DASH == "---"
DATE == "date:"
TITLE == "title:"
SP == " "
NL == "\n"
CR == "\r"
FF == "\f"
X == "x"

\* None, where the other values are sequences
None == <<>>

Min(S) == CHOOSE m \in S : \A n \in S : m <= n

\* str.strip(), \s of the re module: the white space characters
IsSpace(c) == c \in {SP, NL, CR, FF}

\* str.strip()
Strip(s) ==
    LET keep == {p \in 1..Len(s) : ~IsSpace(s[p])}
    IN IF keep = {} THEN <<>>
       ELSE SubSeq(s, Min(keep), CHOOSE m \in keep : \A n \in keep : n <= m)

\* str.startswith(prefix), for a one-token prefix
StartsWith(line, tok) == Len(line) >= 1 /\ line[1] = tok

\* str.endswith("\n")
EndsWithNL(text) == Len(text) >= 1 /\ text[Len(text)] = NL

\* str.splitlines(): a line ends at \n, \r, \r\n or \f; no empty last line
RECURSIVE SplitLines(_)
SplitLines(text) ==
    IF text = <<>> THEN <<>>
    ELSE LET b == Min({p \in 1..Len(text) : text[p] \in {NL, CR, FF}}
                      \cup {Len(text) + 1})
             step == IF b < Len(text) /\ text[b] = CR /\ text[b + 1] = NL
                     THEN 2 ELSE 1
         IN IF b = Len(text) + 1 THEN <<text>>
            ELSE <<SubSeq(text, 1, b - 1)>>
                 \o SplitLines(SubSeq(text, b + step, Len(text)))

\* "\n".join(lines)
RECURSIVE JoinNL(_)
JoinNL(lines) ==
    IF lines = <<>> THEN <<>>
    ELSE IF Len(lines) = 1 THEN lines[1]
    ELSE lines[1] \o <<NL>> \o JoinNL(Tail(lines))

\* Reading in text mode (newline=None): \r\n and \r become \n
RECURSIVE ReadText(_)
ReadText(bytes) ==
    IF bytes = <<>> THEN <<>>
    ELSE IF bytes[1] = CR
         THEN <<NL>> \o ReadText(IF Len(bytes) >= 2 /\ bytes[2] = NL
                                 THEN SubSeq(bytes, 3, Len(bytes))
                                 ELSE Tail(bytes))
         ELSE <<bytes[1]>> \o ReadText(Tail(bytes))

\* Writing in text mode (newline=None): \n becomes os.linesep
RECURSIVE WriteText(_, _)
WriteText(text, os) ==
    IF text = <<>> THEN <<>>
    ELSE (IF text[1] = NL /\ os = "nt" THEN <<CR, NL>> ELSE <<text[1]>>)
         \o WriteText(Tail(text), os)

-----------------------------------------------------------------------------
(* Timestamps *)

YMD == <<"2024-03-01", "2024-03-02", "2024-03-03", "2024-03-04", "2024-03-05">>
HM == <<"10:00", "22:00">>
TZ == "+0000"

\* strftime("%Y-%m-%d")
StrftimeDay(t) == YMD[(t \div Len(HM)) + 1]

\* strftime("%Y-%m-%d %H:%M")
StrftimeMinute(t) == <<StrftimeDay(t), SP, HM[(t % Len(HM)) + 1]>>

\* strftime("%Y-%m-%d %H:%M %z") of an aware datetime
StrftimeZone(t) == StrftimeMinute(t) \o <<SP, TZ>>

-----------------------------------------------------------------------------
(* publish_post.py: the front matter date *)

\* the substitution with the pattern r"^date:\s*", which leaves the old value
ReSubnDateKeepingValue(repl, text) ==
    LET n == Len(text)
        starts == {p \in 1..n : text[p] = DATE /\ (p = 1 \/ text[p - 1] = NL)}
    IN IF starts = {} THEN [text |-> text, count |-> 0]
       ELSE LET i == Min(starts)
                j == Min({p \in (i + 1)..n : ~IsSpace(text[p])} \cup {n + 1})
            IN [text |-> SubSeq(text, 1, i - 1) \o repl \o SubSeq(text, j, n),
                count |-> 1]

\* re.subn(r"^date:\s*.*$", repl, text, count=1, flags=re.MULTILINE)
ReSubnDate(repl, text) ==
    LET n == Len(text)
        starts == {p \in 1..n : text[p] = DATE /\ (p = 1 \/ text[p - 1] = NL)}
    IN IF starts = {} THEN [text |-> text, count |-> 0]
       ELSE LET i == Min(starts)
                \* \s* takes all the white space, line ends included
                j == Min({p \in (i + 1)..n : ~IsSpace(text[p])} \cup {n + 1})
                \* .* takes the rest of the line it is on now
                k == Min({p \in j..n : text[p] = NL} \cup {n + 1})
            IN [text |-> SubSeq(text, 1, i - 1) \o repl \o SubSeq(text, k, n),
                count |-> 1]

\* the least index in a set of indices, or 0 when there is none
FirstIndex(hits) == IF hits = {} THEN 0 ELSE Min(hits)

IsDelimiter(line) == Strip(line) = <<DASH>>
IsDateLine(line) == StartsWith(line, DATE)
IsTitleLine(line) == StartsWith(line, TITLE)

InsertDateField(text, date_str) ==
    LET lines == SplitLines(text)
        closing_index == FirstIndex({p \in 2..Len(lines) : IsDelimiter(lines[p])})
    IN IF lines = <<>> \/ ~IsDelimiter(lines[1])
       THEN [exc |-> "RuntimeError", text |-> <<>>]
       ELSE IF closing_index = 0
       THEN [exc |-> "RuntimeError", text |-> <<>>]
       ELSE LET frontmatter_lines == SubSeq(lines, 2, closing_index - 1)
                date_line == <<DATE, SP>> \o date_str
                date_index == FirstIndex({p \in 1..Len(frontmatter_lines) :
                                             IsDateLine(frontmatter_lines[p])})
                title_index == FirstIndex({p \in 1..Len(frontmatter_lines) :
                                              IsTitleLine(frontmatter_lines[p])})
                stamped ==
                    IF date_index # 0
                    THEN [frontmatter_lines EXCEPT ![date_index] = date_line]
                    ELSE SubSeq(frontmatter_lines, 1, title_index)
                         \o <<date_line>>
                         \o SubSeq(frontmatter_lines, title_index + 1,
                                   Len(frontmatter_lines))
                remainder == SubSeq(lines, closing_index + 1, Len(lines))
                new_lines == <<(<<DASH>>)>> \o stamped \o <<(<<DASH>>)>> \o remainder
                new_text == JoinNL(new_lines)
            IN [exc |-> "none",
                text |-> IF EndsWithNL(text) THEN new_text \o <<NL>> ELSE new_text]

\* update_frontmatter_date(path, new_datetime) on the bytes of the file:
\* the exception raised, and the bytes of the file afterwards
UpdateFrontmatterDate(bytes, new_datetime, os) ==
    LET text == ReadText(bytes)
        date_str == StrftimeZone(new_datetime)
        sub == ReSubnDate(<<DATE, SP>> \o date_str, text)
        ins == InsertDateField(text, date_str)
    IN IF sub.count # 0
       THEN [exc |-> "none", bytes |-> WriteText(sub.text, os)]
       ELSE IF ins.exc # "none"
       THEN [exc |-> ins.exc, bytes |-> bytes]
       ELSE [exc |-> "none", bytes |-> WriteText(ins.text, os)]

-----------------------------------------------------------------------------
(* publish_post.py: the drafts and the choice of one *)

MD == ".md"
TXT == ".txt"

\* what the author may save in _drafts: a stub, a post that quotes a date
\* line in its body, a file without front matter, a second draft, and notes
DraftFiles ==
    { [name |-> <<"a", MD>>, text |-> <<DASH, NL, TITLE, SP, X, NL, DASH, NL>>],
      [name |-> <<"a", MD>>,
       text |-> <<DASH, NL, TITLE, SP, X, NL, DASH, NL, DATE, SP, X, NL>>],
      [name |-> <<"a", MD>>, text |-> <<X, NL>>],
      [name |-> <<"b", MD>>, text |-> <<DASH, NL, DATE, SP, X, NL, DASH, NL>>],
      [name |-> <<"a", TXT>>, text |-> <<X, NL>>] }

\* Path.stem and Path.suffix
Stem(name) == SubSeq(name, 1, Len(name) - 1)
Suffix(name) == name[Len(name)]

\* the order of str on the characters of file names
CharRank(c) ==
    CASE c = MD -> 1 [] c = TXT -> 2 [] c = "a" -> 3 [] c = "b" -> 4

RECURSIVE PathLess(_, _)
PathLess(p, q) ==
    IF p = <<>> THEN q # <<>>
    ELSE IF q = <<>> THEN FALSE
    ELSE IF p[1] = q[1] THEN PathLess(Tail(p), Tail(q))
    ELSE CharRank(p[1]) < CharRank(q[1])

\* sorted(paths)
RECURSIVE Sorted(_)
Sorted(paths) ==
    IF paths = {} THEN <<>>
    ELSE LET least == CHOOSE p \in paths : \A q \in paths \ {p} : PathLess(p, q)
         IN <<least>> \o Sorted(paths \ {least})

\* the list with glob("*") in place of glob("*.md")
ListDraftsAnySuffix(dir) == Sorted(DOMAIN dir)

\* list_drafts(): sorted(DRAFTS_DIR.glob("*.md"))
ListDrafts(dir) == Sorted({name \in DOMAIN dir : Suffix(name) = MD})

\* str(p.relative_to(ROOT))
RelPath(name) == <<"_drafts/">> \o name

\* str(idx)
IdxStr == <<"1", "2", "3", "4">>

\* the lines choose_draft prints before it prompts
Listing(ds) ==
    <<(<<"Select a draft to publish:">>)>>
    \o [idx \in 1..Len(ds) |-> <<IdxStr[idx], ". ">> \o RelPath(ds[idx])]

\* rel_paths.index(selection), 1-based; 0 stands for ValueError
IndexOf(ds, selection) ==
    FirstIndex({k \in 1..Len(ds) : RelPath(ds[k]) = selection})

\* what the author may type at the prompt
InputLines ==
    { <<>>, <<SP>>, <<"1">>, <<SP, "2", SP>>, <<"0">>, <<"3">>, <<"a">>,
      <<"SUPERSCRIPT TWO">> }

\* the end of standard input, where input() raises EOFError
EOF == <<"EOF">>

\* str.isdigit(): every character is a digit, and there is at least one
IsDigit(s) ==
    s # <<>> /\ \A p \in 1..Len(s) : s[p] \in {"0", "1", "2", "3", "SUPERSCRIPT TWO"}

\* the characters int() reads as decimal digits
IsDecimal(c) == c \in {"0", "1", "2", "3"}

DigitValue(c) == CASE c = "0" -> 0 [] c = "1" -> 1 [] c = "2" -> 2 [] c = "3" -> 3

\* int(s) of a string that passed isdigit(); -1 stands for ValueError
RECURSIVE IntOf(_)
IntOf(s) ==
    IF \E p \in 1..Len(s) : ~IsDecimal(s[p]) THEN -1
    ELSE IF s = <<>> THEN 0
    ELSE 10 * IntOf(SubSeq(s, 1, Len(s) - 1)) + DigitValue(s[Len(s)])

-----------------------------------------------------------------------------
(* publish_post.py: main *)

NoDraftsMsg == <<"No draft posts found.">>
PromptMsg == <<"Enter number (or blank to cancel): ">>
InvalidMsg == <<"Invalid selection, try again.">>
PublishedMsg(old, new) == <<"Published ">> \o old \o <<" -> ">> \o new

Platforms == {"posix", "nt"}
Ended == {"exit", "crashed"}

newPostVars == <<filename, frontmatter, content>>

\* the clock moves on
Tick ==
    /\ clock < MaxClock
    /\ clock' = clock + 1
    /\ UNCHANGED <<platform, drafts, posts, pc, runs, listed, which, fzfCalls,
                   proc, choice, reads, selected, now, stdout, exc, rc, orig,
                   newPostVars>>

\* the author saves a file in _drafts while no script runs
WriteDraft(name, text) ==
    /\ pc = "idle"
    /\ IF name \in DOMAIN drafts THEN drafts[name] # text ELSE TRUE
    /\ drafts' = [n \in DOMAIN drafts \cup {name} |->
                     IF n = name THEN text ELSE drafts[n]]
    /\ UNCHANGED <<platform, posts, clock, pc, runs, listed, which, fzfCalls,
                   proc, choice, reads, selected, now, stdout, exc, rc, orig,
                   newPostVars>>

\* main() up to the first wait: list_drafts(), and choose_draft() up to the
\* start of fzf or the first prompt.  found: shutil.which("fzf") finds the
\* tool; started: subprocess.run does not raise OSError
MainStart(found, started) ==
    /\ pc = "idle"
    /\ runs < MaxRuns
    /\ runs' = runs + 1
    /\ listed' = ListDrafts(drafts)
    /\ exc' = "none"
    /\ choice' = <<>>
    /\ reads' = 0
    /\ selected' = None
    /\ proc' = None
    /\ IF listed' = <<>>
       THEN /\ stdout' = <<NoDraftsMsg>>
            /\ which' = FALSE
            /\ fzfCalls' = 0
            /\ rc' = 0
            /\ pc' = "exit"
       ELSE /\ which' = found
            /\ rc' = -1
            /\ IF found /\ started
               THEN /\ fzfCalls' = 1
                    /\ stdout' = <<>>
                    /\ pc' = "fzf"
               ELSE /\ fzfCalls' = 0
                    /\ stdout' = Listing(listed')
                    /\ pc' = "prompt"
    /\ UNCHANGED <<platform, drafts, posts, clock, now, orig, newPostVars>>

\* the outputs fzf can have: nothing, or one of the lines it was given
FzfOutputs(ds) == {<<>>} \cup {RelPath(ds[k]) \o <<NL>> : k \in 1..Len(ds)}

\* the test of line 40 without its returncode
SucceededAnyStatus(p) == p # None

\* proc and proc.returncode == 0
Succeeded(p) == p # None /\ p[1].returncode = 0

\* fzf ends; choose_draft goes on to its return or to the first prompt
FzfExit(returncode, out) ==
    /\ pc = "fzf"
    /\ proc' = <<[returncode |-> returncode, stdout |-> out]>>
    /\ IF Succeeded(proc')
       THEN LET selection == Strip(out)
                index == IndexOf(listed, selection)
            IN IF selection = <<>>
               THEN /\ selected' = None
                    /\ exc' = exc
                    /\ rc' = 0
                    /\ pc' = "exit"
               ELSE IF index = 0
               THEN /\ selected' = None
                    /\ exc' = "ValueError"
                    /\ rc' = 1
                    /\ pc' = "crashed"
               ELSE /\ selected' = listed[index]
                    /\ exc' = exc
                    /\ rc' = rc
                    /\ pc' = "promote"
       ELSE /\ pc' = "prompt"
            /\ UNCHANGED <<selected, exc, rc>>
    /\ stdout' = IF Succeeded(proc') THEN stdout ELSE stdout \o Listing(listed)
    /\ UNCHANGED <<platform, drafts, posts, clock, runs, listed, which,
                   fzfCalls, choice, reads, now, orig, newPostVars>>

\* one round of the prompt loop of choose_draft: input() returns line, or
\* raises EOFError when line is EOF
Prompt(line) ==
    /\ pc = "prompt"
    /\ reads < MaxReads
    /\ reads' = reads + 1
    /\ choice' = line
    /\ LET stripped == Strip(line)
           index == IntOf(stripped) - 1
       IN IF line = EOF \/ stripped = <<>>
          THEN /\ stdout' = Append(stdout, PromptMsg)
               /\ selected' = None
               /\ exc' = exc
               /\ rc' = 0
               /\ pc' = "exit"
          ELSE IF IsDigit(stripped) /\ IntOf(stripped) = -1
          THEN /\ stdout' = Append(stdout, PromptMsg)
               /\ selected' = None
               /\ exc' = "ValueError"
               /\ rc' = 1
               /\ pc' = "crashed"
          ELSE IF IsDigit(stripped) /\ 0 <= index /\ index < Len(listed)
          THEN /\ stdout' = Append(stdout, PromptMsg)
               /\ selected' = listed[index + 1]
               /\ exc' = exc
               /\ rc' = rc
               /\ pc' = "promote"
          ELSE /\ stdout' = stdout \o <<PromptMsg, InvalidMsg>>
               /\ UNCHANGED <<selected, exc, rc, pc>>
    /\ UNCHANGED <<platform, drafts, posts, clock, runs, listed, which,
                   fzfCalls, proc, now, orig, newPostVars>>

\* promote_draft, lines 111-112: read the clock, stamp the front matter
PromoteUpdate ==
    /\ pc = "promote"
    /\ now' = clock
    /\ orig' = drafts[selected]
    /\ LET r == UpdateFrontmatterDate(drafts[selected], clock, platform)
       IN /\ drafts' = [drafts EXCEPT ![selected] = r.bytes]
          /\ exc' = r.exc
          /\ IF r.exc = "none"
             THEN pc' = "rename" /\ rc' = rc
             ELSE pc' = "crashed" /\ rc' = 1
    /\ UNCHANGED <<platform, posts, clock, runs, listed, which, fzfCalls,
                   proc, choice, reads, selected, stdout, newPostVars>>

\* new_name of promote_draft
NewName(draft, t) == <<StrftimeDay(t), "-">> \o Stem(draft) \o <<Suffix(draft)>>

\* Path.rename(target): os.rename replaces an existing target on POSIX and
\* raises FileExistsError on Windows
Rename(src, target, os) ==
    IF target \in DOMAIN posts /\ os = "nt"
    THEN [exc |-> "FileExistsError", drafts |-> drafts, posts |-> posts]
    ELSE [exc |-> "none",
          drafts |-> [n \in DOMAIN drafts \ {src} |-> drafts[n]],
          posts |-> [n \in DOMAIN posts \cup {target} |->
                       IF n = target THEN drafts[src] ELSE posts[n]]]

\* promote_draft, lines 114-119, and the rest of main
PromoteRename ==
    /\ pc = "rename"
    /\ LET new_path == NewName(selected, now)
           r == Rename(selected, new_path, platform)
       IN /\ drafts' = r.drafts
          /\ posts' = r.posts
          /\ exc' = r.exc
          /\ IF r.exc = "none"
             THEN /\ stdout' = Append(stdout, PublishedMsg(selected, new_path))
                  /\ rc' = 0
                  /\ pc' = "exit"
             ELSE /\ stdout' = stdout
                  /\ rc' = 1
                  /\ pc' = "crashed"
    /\ UNCHANGED <<platform, clock, runs, listed, which, fzfCalls, proc,
                   choice, reads, selected, now, orig, newPostVars>>

\* the variables of a script that is not running
NoProcess ==
    /\ pc = "idle"
    /\ listed = <<>>
    /\ which = FALSE
    /\ fzfCalls = 0
    /\ proc = None
    /\ choice = <<>>
    /\ reads = 0
    /\ selected = None
    /\ now = 0
    /\ stdout = <<>>
    /\ exc = "none"
    /\ rc = -1
    /\ orig = <<>>
    /\ filename = <<>>
    /\ frontmatter = <<>>
    /\ content = <<>>

\* the process of an ended script goes away, and its variables with it
Terminate ==
    /\ pc \in Ended
    /\ pc' = "idle"
    /\ listed' = <<>>
    /\ which' = FALSE
    /\ fzfCalls' = 0
    /\ proc' = None
    /\ choice' = <<>>
    /\ reads' = 0
    /\ selected' = None
    /\ now' = 0
    /\ stdout' = <<>>
    /\ exc' = "none"
    /\ rc' = -1
    /\ orig' = <<>>
    /\ filename' = <<>>
    /\ frontmatter' = <<>>
    /\ content' = <<>>
    /\ UNCHANGED <<platform, drafts, posts, clock, runs>>

EmptyDir == [n \in {} |-> <<>>]

Init ==
    /\ platform \in Platforms
    /\ drafts = EmptyDir
    /\ posts = EmptyDir
    /\ clock = 0
    /\ runs = 0
    /\ NoProcess

Next ==
    \/ Tick
    \/ \E f \in DraftFiles : WriteDraft(f.name, f.text)
    \/ \E found \in BOOLEAN, started \in BOOLEAN : MainStart(found, started)
    \/ \E out \in FzfOutputs(listed) : FzfExit(0, out)
    \/ FzfExit(130, <<>>)
    \/ \E line \in InputLines \cup {EOF} : Prompt(line)
    \/ PromoteUpdate
    \/ PromoteRename
    \/ Terminate

Spec == Init /\ [][Next]_vars

-----------------------------------------------------------------------------
(* update_frontmatter_date alone, on every short text *)

\* the lines a text is made of
LineShapes ==
    { <<DASH>>, <<SP, DASH>>, <<DATE>>, <<DATE, SP, X>>, <<TITLE, SP, X>>,
      <<X>>, <<>>, <<X, FF, DATE, X>>, <<X, CR>> }

\* the texts of at most n lines, with and without a last line end
RECURSIVE LinesUpTo(_)
LinesUpTo(n) ==
    IF n = 0 THEN {<<>>}
    ELSE LET shorter == LinesUpTo(n - 1)
         IN shorter \cup {Append(ls, l) : ls \in shorter, l \in LineShapes}

Texts == UNION {{JoinNL(ls), JoinNL(ls) \o <<NL>>} : ls \in LinesUpTo(MaxLines)}

ThePath == <<"a", MD>>

InitRewrite ==
    /\ platform \in Platforms
    /\ \E text \in Texts : drafts = [n \in {ThePath} |-> text]
    /\ posts = EmptyDir
    /\ clock = 0
    /\ runs = 0
    /\ pc = "update"
    /\ listed = <<>>
    /\ which = FALSE
    /\ fzfCalls = 0
    /\ proc = None
    /\ choice = <<>>
    /\ reads = 0
    /\ selected = ThePath
    /\ now \in 0..MaxClock
    /\ stdout = <<>>
    /\ exc = "none"
    /\ rc = -1
    /\ orig = <<>>
    /\ filename = <<>>
    /\ frontmatter = <<>>
    /\ content = <<>>

\* update_frontmatter_date(selected, now), called once more
Update ==
    /\ pc = "update"
    /\ runs < MaxRuns
    /\ runs' = runs + 1
    /\ orig' = drafts[selected]
    /\ LET r == UpdateFrontmatterDate(drafts[selected], now, platform)
       IN /\ drafts' = [drafts EXCEPT ![selected] = r.bytes]
          /\ exc' = r.exc
          /\ pc' = IF r.exc = "none" THEN "update" ELSE "crashed"
    /\ UNCHANGED <<platform, posts, clock, listed, which, fzfCalls, proc,
                   choice, reads, selected, now, stdout, rc, newPostVars>>

NextRewrite == Update

SpecRewrite == InitRewrite /\ [][NextRewrite]_vars

-----------------------------------------------------------------------------
(* new_post.py *)

APOSTROPHE == "APOSTROPHE"
BACKTICK == "BACKTICK"
QUOTE == "QUOTE"

\* what the author may type as a title
Titles ==
    { <<>>, <<"H">>, <<"H", SP, "w">>, <<"w", APOSTROPHE, "s">>,
      <<BACKTICK, "w">> }

\* str.lower()
Lower(c) == IF c = "H" THEN "h" ELSE c

\* title.lower().replace(" ", "-").replace("'", "").replace("`", "")
RECURSIVE Slug(_)
Slug(title) ==
    IF title = <<>> THEN <<>>
    ELSE LET c == Lower(title[1])
         IN (IF c = SP THEN <<"-">> ELSE IF c \in {APOSTROPHE, BACKTICK} THEN <<>> ELSE <<c>>)
            \o Slug(Tail(title))

\* the f-string of lines 17-22
Frontmatter(title, datetime_str) ==
    <<DASH, NL, TITLE, SP, QUOTE>> \o title \o <<QUOTE, NL, DATE, SP>>
    \o datetime_str \o <<NL, DASH, NL, NL>>

DeletedMsg(name) == <<"Deleted: ", "_posts/">> \o name \o <<" (no changes made)">>
CreatedMsg(name) == <<"Created: ", "_posts/">> \o name

\* what the author may do to the file in the editor
Edits == {"quit", "newline", "indent", "dos", "body", "retitle", "empty"}

Edited(edit, bytes) ==
    CASE edit = "quit" -> bytes
      [] edit = "newline" -> bytes \o <<NL>>
      [] edit = "indent" -> <<SP>> \o bytes
      [] edit = "dos" -> WriteText(ReadText(bytes), "nt")
      [] edit = "body" -> bytes \o <<X, NL>>
      [] edit = "retitle" -> <<DASH, NL, TITLE, SP, X, NL, DASH, NL>>
      [] edit = "empty" -> <<>>

\* lines 6-27, up to the start of the editor.  later: the ticks of the clock
\* between the two calls of datetime.now()
NewPostStart(title, later) ==
    /\ pc = "idle"
    /\ runs < MaxRuns
    /\ clock + later <= MaxClock
    /\ runs' = runs + 1
    /\ clock' = clock + later
    /\ stdout' = <<(<<"Enter post title: ">>)>>
    /\ IF title = <<>>
       THEN /\ rc' = 0
            /\ pc' = "exit"
            /\ UNCHANGED <<posts, filename, frontmatter>>
       ELSE LET date_str == StrftimeDay(clock)
                datetime_str == StrftimeMinute(clock + later)
                slug == Slug(title)
                name == <<date_str, "-">> \o slug \o <<MD>>
                text == Frontmatter(title, datetime_str)
            IN /\ filename' = name
               /\ frontmatter' = text
               /\ posts' = [n \in DOMAIN posts \cup {name} |->
                               IF n = name THEN WriteText(text, platform)
                               ELSE posts[n]]
               /\ rc' = -1
               /\ pc' = "editor"
    /\ UNCHANGED <<platform, drafts, listed, which, fzfCalls, proc, choice,
                   reads, selected, now, exc, orig, content>>

\* subprocess.run(["nvim", filename]) where there is no nvim
EditorMissing ==
    /\ pc = "editor"
    /\ exc' = "FileNotFoundError"
    /\ rc' = 1
    /\ pc' = "crashed"
    /\ UNCHANGED <<platform, drafts, posts, clock, runs, listed, which,
                   fzfCalls, proc, choice, reads, selected, now, stdout, orig,
                   newPostVars>>

\* the comparison without strip()
UnchangedExactly(text, written) == text = written

\* content.strip() == frontmatter.strip()
Unchanged(text, written) == Strip(text) = Strip(written)

\* the editor ends, the author having done edit; then lines 29-36
EditorExit(edit) ==
    /\ pc = "editor"
    /\ LET bytes == Edited(edit, posts[filename])
           text == ReadText(bytes)
       IN /\ content' = text
          /\ IF Unchanged(text, frontmatter)
             THEN /\ posts' = [n \in DOMAIN posts \ {filename} |-> posts[n]]
                  /\ stdout' = Append(stdout, DeletedMsg(filename))
             ELSE /\ posts' = [posts EXCEPT ![filename] = bytes]
                  /\ stdout' = Append(stdout, CreatedMsg(filename))
    /\ rc' = 0
    /\ pc' = "exit"
    /\ UNCHANGED <<platform, drafts, clock, runs, listed, which, fzfCalls,
                   proc, choice, reads, selected, now, exc, orig, filename,
                   frontmatter>>

\* the author removes the file from within the editor; open() then raises
EditorRemoves ==
    /\ pc = "editor"
    /\ posts' = [n \in DOMAIN posts \ {filename} |-> posts[n]]
    /\ exc' = "FileNotFoundError"
    /\ rc' = 1
    /\ pc' = "crashed"
    /\ UNCHANGED <<platform, drafts, clock, runs, listed, which, fzfCalls,
                   proc, choice, reads, selected, now, stdout, orig,
                   newPostVars>>

NextNewPost ==
    \/ Tick
    \/ \E title \in Titles, later \in {0, 1} : NewPostStart(title, later)
    \/ EditorMissing
    \/ \E edit \in Edits : EditorExit(edit)
    \/ EditorRemoves
    \/ Terminate

SpecNewPost == Init /\ [][NextNewPost]_vars

-----------------------------------------------------------------------------
(* The claims about update_frontmatter_date, under SpecRewrite.  orig is   *)
(* the file before the last call, drafts[selected] the file after it.      *)

\* the lines of a text, a line ending at each "\n"
RECURSIVE SplitNL(_)
SplitNL(text) ==
    LET b == Min({p \in 1..Len(text) : text[p] = NL} \cup {Len(text) + 1})
    IN IF b = Len(text) + 1 THEN <<text>>
       ELSE <<SubSeq(text, 1, b - 1)>> \o SplitNL(SubSeq(text, b + 1, Len(text)))

\* a text whose line ends are all "\n" and whose "---" lines have no blanks
\* around them: no newline translation and no strip() takes part
PlainText(text) ==
    /\ \A p \in 1..Len(text) : text[p] \notin {CR, FF}
    /\ \A p \in 1..Len(SplitNL(text)) :
          Strip(SplitNL(text)[p]) = <<DASH>> => SplitNL(text)[p] = <<DASH>>

\* first line "---", and a later line "---"
WellFormed(text) ==
    /\ SplitNL(text)[1] = <<DASH>>
    /\ \E p \in 2..Len(SplitNL(text)) : SplitNL(text)[p] = <<DASH>>

\* the index of the line that closes the front matter of a well-formed text
ClosingLine(text) == Min({p \in 2..Len(SplitNL(text)) : SplitNL(text)[p] = <<DASH>>})

\* the lines of the front matter block that begin with tok
FrontLines(text, tok) ==
    {p \in 2..(ClosingLine(text) - 1) : StartsWith(SplitNL(text)[p], tok)}

\* the line "date: <T formatted>"
DateLineOf(t) == <<DATE, SP>> \o StrftimeZone(t)

\* C1: a well-formed text whose front matter has a date: line comes out with
\* the first such line reading "date: <T formatted>" and every other line as
\* it was, in the same order.
C1_FirstDateLineReplaced ==
    (runs = 1 /\ platform = "posix" /\ PlainText(orig) /\ WellFormed(orig)
        /\ FrontLines(orig, DATE) # {})
    => /\ exc = "none"
       /\ drafts[selected] =
            JoinNL([SplitNL(orig) EXCEPT ![Min(FrontLines(orig, DATE))] = DateLineOf(now)])

\* C2: a text whose first line is not "---", or that has no later "---" line,
\* makes update_frontmatter_date raise the structural error and leaves the
\* file as it was, whatever its other lines are.
C2_StructuralErrorNoWrite ==
    (runs = 1 /\ PlainText(orig) /\ ~WellFormed(orig))
    => /\ exc = "RuntimeError"
       /\ drafts[selected] = orig

\* C3: a well-formed text whose front matter has no date: line comes out with
\* "date: <T formatted>" inserted in the front matter, right after the title:
\* line if there is one and as the first front matter line otherwise, and with
\* every other line as it was, in the same order.
C3_DateLineInserted ==
    (runs = 1 /\ platform = "posix" /\ PlainText(orig) /\ WellFormed(orig)
        /\ FrontLines(orig, DATE) = {})
    => LET after == IF FrontLines(orig, TITLE) = {} THEN 1
                    ELSE Min(FrontLines(orig, TITLE))
           lines == SplitNL(orig)
       IN /\ exc = "none"
          /\ drafts[selected] =
               JoinNL(SubSeq(lines, 1, after) \o <<DateLineOf(now)>>
                      \o SubSeq(lines, after + 1, Len(lines)))

\* C4: once update_frontmatter_date has succeeded with timestamp T, a second
\* call with the same T succeeds and leaves the file as the first call left it.
C4_Idempotent ==
    runs >= 2 => (exc = "none" /\ drafts[selected] = orig)

\* the second call has run, on a file the first call had stamped
C4_Witness ==
    /\ runs = 2
    /\ exc = "none"
    /\ drafts[selected] = orig
    /\ \E p \in 1..Len(orig) : orig[p] = DATE

-----------------------------------------------------------------------------
(* The claims about publish_post.py, under Spec *)

\* C5: promote_draft ends with a file system error whenever a file already
\* is at the destination, and no promotion overwrites or loses a published
\* post.
C5_NeverOverwrites ==
    [][ /\ (pc \in {"promote", "rename"})
           => \A n \in DOMAIN posts : n \in DOMAIN posts' /\ posts'[n] = posts[n]
        /\ (pc = "rename" /\ pc' # "rename" /\ NewName(selected, now) \in DOMAIN posts)
           => (exc' = "FileExistsError" /\ pc' = "crashed") ]_vars

\* the first date: line of the front matter of a text, <<>> if there is none
FrontMatterDate(text) ==
    IF WellFormed(text) /\ FrontLines(text, DATE) # {}
    THEN SplitNL(text)[Min(FrontLines(text, DATE))]
    ELSE <<>>

\* C6: when promote_draft has succeeded, the draft is gone from _drafts, the
\* file is in _posts under <YYYY-MM-DD>-<stem><ext>, and that date prefix and
\* the date: line of its front matter come from the one timestamp read at the
\* start, whatever the clock did since.
C6_PromotedWithOneTimestamp ==
    [][ (pc = "rename" /\ pc' = "exit")
        => LET dest == <<StrftimeDay(now), "-">> \o Stem(selected) \o <<Suffix(selected)>>
           IN /\ selected \notin DOMAIN drafts'
              /\ dest \in DOMAIN posts'
              /\ FrontMatterDate(ReadText(posts'[dest])) = DateLineOf(now) ]_vars

\* a string of decimal digits
Numeric(s) == s # <<>> /\ \A p \in 1..Len(s) : s[p] \in {"0", "1", "2", "3"}

\* C7: at the numbered prompt a blank line or the end of input gives no
\* selection; a number within 1..len(drafts) gives that draft; every other
\* input gives a new prompt, never an exception or another selection.
C7_PromptNeverRaises ==
    (reads > 0) =>
       LET s == Strip(choice)
       IN IF choice = EOF \/ s = <<>>
          THEN selected = None /\ pc = "exit" /\ rc = 0
          ELSE IF Numeric(s) /\ IntOf(s) \in 1..Len(listed)
          THEN selected = listed[IntOf(s)] /\ pc # "prompt"
          ELSE /\ selected = None
               /\ pc = "prompt"
               /\ exc = "none"
               /\ stdout[Len(stdout)] = InvalidMsg

\* C8: with no draft to list, main prints "No draft posts found." and exits
\* with code 0; it starts neither fzf nor the prompt, and no file changes.
C8_EmptyListExits ==
    [][ /\ (runs' # runs /\ {n \in DOMAIN drafts : Suffix(n) = MD} = {})
           => /\ pc' = "exit"
              /\ rc' = 0
              /\ exc' = "none"
              /\ stdout' = <<NoDraftsMsg>>
              /\ fzfCalls' = 0
              /\ reads' = 0
              /\ selected' = None
              /\ drafts' = drafts
              /\ posts' = posts
        /\ (pc = "exit" /\ listed = <<>> /\ pc' # pc)
           => (pc' = "idle" /\ drafts' = drafts /\ posts' = posts) ]_vars

\* main has ended on an empty list, notes.txt-like files left where they were
C8_Witness ==
    /\ pc = "exit"
    /\ listed = <<>>
    /\ stdout = <<NoDraftsMsg>>
    /\ rc = 0
    /\ DOMAIN drafts # {}

\* the numbered list has been printed
Prompted == \E p \in 1..Len(stdout) : stdout[p] = <<"Select a draft to publish:">>

\* C10: with drafts to list, choose_draft goes to the numbered prompt when
\* fzf is not found, cannot be started, or ends with a status other than 0;
\* after fzf ended with status 0 the prompt is never shown, and the draft of
\* the line fzf printed is returned, or nothing if it printed nothing.
C10_PromptOnlyWithoutFzfAnswer ==
    (listed # <<>> /\ pc \notin {"idle", "fzf"})
    => IF which /\ proc # None /\ proc[1].returncode = 0
       THEN /\ ~Prompted
            /\ reads = 0
            /\ fzfCalls = 1
            /\ IF proc[1].stdout = <<>> THEN selected = None
               ELSE /\ selected # None
                    /\ RelPath(selected) \o <<NL>> = proc[1].stdout
                    /\ \E k \in 1..Len(listed) : listed[k] = selected
       ELSE /\ Len(stdout) > Len(listed)
            /\ SubSeq(stdout, 1, Len(listed) + 1) = Listing(listed)
            /\ fzfCalls = IF proc = None THEN 0 ELSE 1
            /\ which \/ proc = None

\* fzf was cancelled and the numbered list is on the screen
C10_Witness ==
    /\ pc = "prompt"
    /\ which
    /\ proc # None
    /\ proc[1].returncode # 0
    /\ Prompted
    /\ Len(listed) = 2

-----------------------------------------------------------------------------
(* The claim about new_post.py, under SpecNewPost *)

\* C9: after the editor has ended, the file is there exactly if the text read
\* back differs from the stub once both are stripped; an unedited stub is
\* deleted and reported so, an edited file is kept and reported as created.
C9_StubKeptIffEdited ==
    (pc = "exit" /\ frontmatter # <<>>)
    => LET edited == Strip(content) # Strip(frontmatter)
       IN /\ (filename \in DOMAIN posts) <=> edited
          /\ edited => ReadText(posts[filename]) = content
          /\ stdout[Len(stdout)] =
               IF edited THEN CreatedMsg(filename) ELSE DeletedMsg(filename)

\* the author added only a line end: the stub counts as unedited and is gone
C9_Witness ==
    /\ pc = "exit"
    /\ frontmatter # <<>>
    /\ content # frontmatter
    /\ Strip(content) = Strip(frontmatter)
    /\ filename \notin DOMAIN posts

====
